---- MODULE Spec2Model ----
(***************************************************************************)
(* State-machine model of the two optimizers of the repository:            *)
(*   - src/DE_optimizer/differential_evolution.py  (differential_evolution)*)
(*   - src/mbo_optimizer/optimizer.py              (mbo_optimize)          *)
(*                                                                         *)
(* Numbers.  Python floats are modelled in fixed point:                    *)
(*   - DE parameter values are in tenths (cpu 0.1 is 1, 256 MB is 2560),   *)
(*     DE scores in thousandths;                                           *)
(*   - sequences are 1-based, so Python's trial[2], trial[3] are the       *)
(*     dimensions 3 and 4 here, and Python's index i is i + 1 here.        *)
(* Random draws and the answers of external services are the inputs of the *)
(* model: each is chosen with \E from a small set of possible outcomes.    *)
(***************************************************************************)
EXTENDS Integers, Sequences, FiniteSets, TLC

VARIABLES
    prog,        \* which program runs: "de" or "mbo"
    \* ---- differential_evolution (DE_optimizer/differential_evolution.py)
    de_pc,       \* "start", "loop" (top of the inner loop), "vary" (a, b, c are
                 \* sampled), "select" (the trial is built), "done", "failed"
    pop_size,    \* parameter pop_size
    max_iter,    \* parameter max_iter
    population,  \* list of individuals (each a 4-vector)
    fitness,     \* list of scores, parallel to population
    iteration,   \* outer loop variable
    i,           \* inner loop variable (1-based)
    de_evals,    \* number of calls of evaluate_cicd so far
    de_last,     \* what the last selection did: "none", "accepted", "tie", "worse"
    de_result,   \* the returned pair <<config, score>>, or <<>> before the return
    de_abc,      \* the sampled indices <<a, b, c>> (line 37), <<>> between passes
    de_x,        \* the base vectors <<x1, x2, x3>> (line 39)
    de_mutant,   \* mutant (lines 41-47)
    de_R,        \* the forced dimension R (line 50), 0 between passes
    de_raw,      \* trial as crossover leaves it (lines 49-55)
    de_trial,    \* trial after lines 57-59, the vector line 61 scores
    gen_start,   \* population as it was when the current iteration began
    \* ---- mbo_optimize (mbo_optimizer/optimizer.py)
    mbo_pc,        \* "start", "init_eval", "init_best", "iterate", "eval",
                   \* "select", "done", "failed"
    pop,           \* the initial population (list of individuals)
    evaluated,     \* list of entries [ind, score, m]
    best,          \* the global-best entry, <<>> before line 126, then <<entry>>
    it,            \* loop variable of the optimization loop
    new_pop,       \* the offspring of the current generation
    new_evaluated, \* the evaluated offspring
    combined,      \* evaluated + new_evaluated, sorted (lines 152-153)
    mbo_evals,     \* number of candidates scored so far
    min_ever,      \* lowest score any candidate was given so far (<<>>: none yet)
    all_failed,    \* TRUE while every telemetry query of the run has failed
    mbo_result,     \* the returned entry, <<>> before the return
    deployed,    \* the parameters last patched onto the deployment, <<>> before
    patches,     \* how many times patch_deployment_params has returned
    applied,     \* TRUE between a patch and the append of its candidate's score
    \* ---- the functions of optimizer.py exercised on their own
    nz,          \* normalize: the range [lo, hi] and the calls made with it
    pq           \* prometheus_query: the position inside one call

\* The locals of one pass of the inner loop.
de_pass == <<de_abc, de_x, de_mutant, de_R, de_raw, de_trial>>

de_vars == <<de_pc, pop_size, max_iter, population, fitness, iteration, i,
             de_evals, de_last, de_result, de_pass, gen_start>>

\* The deployment under test and the position inside one evaluation.
k8s == <<deployed, patches, applied>>

mbo_vars == <<mbo_pc, pop, evaluated, best, it, new_pop, new_evaluated, combined,
              mbo_evals, min_ever, all_failed, mbo_result, k8s>>

\* The functions exercised on their own.
fn_vars == <<nz, pq>>

vars == <<prog, de_vars, mbo_vars, fn_vars>>

\* ------------------------------------------------------------------ bounds
\* Largest pop_size the model passes to differential_evolution.
MaxPop == 4
\* The max_iter the model passes to differential_evolution (30 in the source).
MaxIter == 2
\* range(3) of prometheus_query (line 30)
MaxAttempts == 3
\* Largest value, lo and hi handed to normalize on its own.
NormMax == 5
\* Calls of normalize made against one range.
MaxCalls == 2
\* POP_SIZE and MAX_ITERS of optimizer.py (8 and 12 in the source, lines 23-24),
\* scaled down.
POP_SIZE == 2
MAX_ITERS == 2

\* ------------------------------------------------ helpers (Python built-ins)
Min2(x, y) == IF x <= y THEN x ELSE y
Max2(x, y) == IF x >= y THEN x ELSE y

\* min(seq) of a non-empty list of numbers
SeqMin(s) == CHOOSE m \in {s[k] : k \in 1..Len(s)} : \A k \in 1..Len(s) : m <= s[k]

\* np.argmin(seq): the first index holding the minimum
ArgMin(s) == CHOOSE k \in 1..Len(s) :
                 /\ \A l \in 1..Len(s) : s[k] <= s[l]
                 /\ \A l \in 1..(k - 1) : s[l] > s[k]

\* Mutant of np.clip: the lower bound is not applied.
Clip_NoFloor(x, lo, hi) == Min2(x, hi)

\* np.clip(x, lo, hi)
Clip(x, lo, hi) == Min2(Max2(x, lo), hi)

\* int(round(x)) for x in tenths: nearest integer, halves to the even one;
\* the result is again in tenths.
RoundInt(x) ==
    LET q == x \div 10
        r == x % 10
    IN  IF r < 5 THEN 10 * q
        ELSE IF r > 5 THEN 10 * (q + 1)
        ELSE IF q % 2 = 0 THEN 10 * q ELSE 10 * (q + 1)

\* ------------------------------------------- differential_evolution.py
\* bounds (lines 14-19), in tenths
bounds == << <<1, 20>>, <<2560, 40960>>, <<10, 100>>, <<10, 50>> >>

dim == Len(bounds)

\* F = 0.8 as the fraction F_num / F_den
F_num == 4
F_den == 5

\* evaluate_cicd(config), in thousandths
evaluate_cicd(config) ==
    LET cpu == config[1]
        mem == config[2]
        rep == config[3]
        build_time == (5000000 \div cpu) + ((mem * 100) \div 500) + (rep * 150)
        resource_penalty == (cpu * 200) + ((mem * 100) \div 800)
    IN  build_time + resource_penalty

\* Outcomes of random.uniform(bounds[j][0], bounds[j][1]) for a whole
\* individual (line 27): every value lies within its bounds; the draws of the
\* replicas and parallel-jobs dimensions include fractional values.
UniformDraws ==
    { <<10, 5120, 15, 15>>,
      <<10, 5120, 20, 15>> }

\* Outcomes of the dim calls of random.random() < CR (line 52).
CRDraws == { [j \in 1..dim |-> FALSE], [j \in 1..dim |-> TRUE] }

\* lines 41-47: the mutant, clipped into the bounds
Mutant(x1, x2, x3) ==
    [j \in 1..dim |->
        Clip(x1[j] + ((F_num * (x2[j] - x3[j])) \div F_den),
             bounds[j][1], bounds[j][2])]

\* Mutant of line 52: the test j == R is dropped.
Crossover_NoForced(xi, mutant, R, draw) ==
    [j \in 1..dim |-> IF draw[j] THEN mutant[j] ELSE xi[j]]

\* lines 49-55: crossover with forced dimension R
Crossover(xi, mutant, R, draw) ==
    [j \in 1..dim |-> IF draw[j] \/ j = R THEN mutant[j] ELSE xi[j]]

\* lines 57-59: integer parameters
RoundIntegerParams(trial) ==
    [trial EXCEPT ![3] = RoundInt(@), ![4] = RoundInt(@)]

\* Mutants of the acceptance test: the comparison reversed; ties accepted.
Accepts_Reversed(trial_fitness, incumbent_fitness) == trial_fitness > incumbent_fitness
Accepts_Ties(trial_fitness, incumbent_fitness) == trial_fitness <= incumbent_fitness

\* line 63: the acceptance test
Accepts(trial_fitness, incumbent_fitness) == trial_fitness < incumbent_fitness

\* lines 23-30: draw and evaluate the initial population
DEInitPopulation ==
    /\ prog = "de"
    /\ de_pc = "start"
    /\ \E p \in [1..pop_size -> UniformDraws] :
          /\ population' = p
          /\ fitness' = [k \in 1..pop_size |-> evaluate_cicd(p[k])]
    /\ de_evals' = pop_size
    /\ iteration' = 0
    /\ i' = 1
    /\ gen_start' = population'
    /\ de_pc' = "loop"
    /\ UNCHANGED <<prog, fn_vars, mbo_vars, pop_size, max_iter, de_last, de_result, de_pass>>

\* Mutant of line 36: i is not removed from the candidates.
SampleCandidates_WithSelf(n, idx) == 1..n

\* lines 35-36: the indices random.sample draws from
SampleCandidates(n, idx) == (1..n) \ {idx}

\* Mutant of line 39: the base vectors are read from a copy of the
\* population taken when the generation began.
BaseVectors_Snapshot(a, b, c) == <<gen_start[a], gen_start[b], gen_start[c]>>

\* line 39: the base vectors are read from the live population
BaseVectors(a, b, c) == <<population[a], population[b], population[c]>>

\* line 64: the winner is stored at index idx
StorePopulation(p, idx, trial) == [p EXCEPT ![idx] = trial]

\* Mutant of line 65: the score of the winner is not stored.
StoreFitness_Skipped(f, idx, trial_fitness) == f

\* line 65
StoreFitness(f, idx, trial_fitness) == [f EXCEPT ![idx] = trial_fitness]

\* lines 35-39: sample three indices and read the base vectors
DESample ==
    /\ prog = "de"
    /\ de_pc = "loop"
    /\ iteration < max_iter
    /\ i <= pop_size
    /\ LET candidates == SampleCandidates(pop_size, i) IN
       /\ Cardinality(candidates) >= 3
       /\ \E a \in candidates : \E b \in candidates \ {a} :
          \E c \in candidates \ {a, b} :
             /\ de_abc' = <<a, b, c>>
             /\ de_x' = BaseVectors(a, b, c)
    /\ de_pc' = "vary"
    /\ UNCHANGED <<prog, fn_vars, mbo_vars, pop_size, max_iter, population, fitness,
                   iteration, i, de_evals, de_last, de_result,
                   de_mutant, de_R, de_raw, de_trial, gen_start>>

\* lines 41-59: mutant, clipping, crossover, integer parameters
DEVary ==
    /\ prog = "de"
    /\ de_pc = "vary"
    /\ \E R \in 1..dim : \E draw \in CRDraws :
          LET mutant == Mutant(de_x[1], de_x[2], de_x[3])
              trial == Crossover(population[i], mutant, R, draw)
          IN  /\ de_mutant' = mutant
              /\ de_R' = R
              /\ de_raw' = trial
              /\ de_trial' = RoundIntegerParams(trial)
    /\ de_pc' = "select"
    /\ UNCHANGED <<prog, fn_vars, mbo_vars, pop_size, max_iter, population, fitness,
                   iteration, i, de_evals, de_last, de_result,
                   de_abc, de_x, gen_start>>

\* lines 61-65: score the trial and select
DESelect ==
    /\ prog = "de"
    /\ de_pc = "select"
    /\ LET trial_fitness == evaluate_cicd(de_trial)
       IN  IF Accepts(trial_fitness, fitness[i])
           THEN /\ population' = StorePopulation(population, i, de_trial)
                /\ fitness' = StoreFitness(fitness, i, trial_fitness)
                /\ de_last' = "accepted"
           ELSE /\ UNCHANGED <<population, fitness>>
                /\ de_last' = IF trial_fitness = fitness[i]
                              THEN "tie" ELSE "worse"
    /\ de_evals' = de_evals + 1
    /\ i' = i + 1
    /\ de_abc' = <<>>
    /\ de_x' = <<>>
    /\ de_mutant' = <<>>
    /\ de_R' = 0
    /\ de_raw' = <<>>
    /\ de_trial' = <<>>
    /\ de_pc' = "loop"
    /\ UNCHANGED <<prog, fn_vars, mbo_vars, pop_size, max_iter, iteration, de_result,
                   gen_start>>

\* lines 35-65: one pass of the inner loop body, for index i
DEStep == DESample \/ DEVary \/ DESelect

\* line 37: random.sample(candidates, 3) raises ValueError when fewer than
\* three candidates are left
DESampleFails ==
    /\ prog = "de"
    /\ de_pc = "loop"
    /\ iteration < max_iter
    /\ i <= pop_size
    /\ Cardinality(SampleCandidates(pop_size, i)) < 3
    /\ de_pc' = "failed"
    /\ UNCHANGED <<prog, fn_vars, mbo_vars, pop_size, max_iter, population, fitness,
                   iteration, i, de_evals, de_last, de_result, de_pass, gen_start>>

\* line 67: the end of one iteration; min(fitness) raises ValueError on an
\* empty list
DEIterationEnd ==
    /\ prog = "de"
    /\ de_pc = "loop"
    /\ iteration < max_iter
    /\ i > pop_size
    /\ IF Len(fitness) = 0
       THEN /\ de_pc' = "failed"
            /\ UNCHANGED <<iteration, i, gen_start>>
       ELSE /\ iteration' = iteration + 1
            /\ i' = 1
            /\ gen_start' = population
            /\ UNCHANGED de_pc
    /\ UNCHANGED <<prog, fn_vars, mbo_vars, pop_size, max_iter, population, fitness,
                   de_evals, de_last, de_result, de_pass>>

\* lines 69-70: np.argmin raises ValueError on an empty list
DEReturn ==
    /\ prog = "de"
    /\ de_pc = "loop"
    /\ iteration = max_iter
    /\ IF Len(fitness) = 0
       THEN /\ de_pc' = "failed"
            /\ UNCHANGED de_result
       ELSE /\ de_pc' = "done"
            /\ de_result' = <<population[ArgMin(fitness)], fitness[ArgMin(fitness)]>>
    /\ UNCHANGED <<prog, fn_vars, mbo_vars, pop_size, max_iter, population, fitness,
                   iteration, i, de_evals, de_last, de_pass, gen_start>>

DENext == DEInitPopulation \/ DEStep \/ DESampleFails \/ DEIterationEnd \/ DEReturn

\* ------------------------------------------------- mbo_optimizer/optimizer.py
\* Units: cpu in hundredths of a core, build duration in seconds, scores and
\* normalized values in ten-thousandths.  An optional number (a float or
\* None) is a sequence: <<>> is None, <<v>> is the number v.

\* ALPHA = 0.7 and BETA = 0.3 (lines 14-15), in tenths
ALPHA == 7
BETA == 3

\* SPACE (lines 17-21)
SPACE == [replicas |-> <<1, 4>>, cpu_request |-> <<10, 50>>, concurrency |-> <<1, 4>>]

\* hist_ranges (line 104)
hist_ranges == [build_duration |-> <<50, 900>>, cpu |-> <<1, 200>>]

\* What prometheus_query returns (lines 27-41): None after three failed
\* attempts, or the list of result values.
QueryFailed == [failed |-> TRUE, values |-> <<>>]
QueryResult(vals) == [failed |-> FALSE, values |-> vals]

RECURSIVE SeqSum(_)
SeqSum(s) == IF s = <<>> THEN 0 ELSE Head(s) + SeqSum(Tail(s))

\* get_metric_scalar (lines 43-53): None when the query failed or matched
\* nothing, else the mean of the values
get_metric_scalar(res) ==
    IF res.failed \/ res.values = <<>>
    THEN <<>>
    ELSE << SeqSum(res.values) \div Len(res.values) >>

\* Python's "x or default" for an optional number: None and 0.0 are falsy
OrDefault(opt, default) ==
    IF opt = <<>> \/ opt[1] = 0 THEN default ELSE opt[1]

\* Mutant of fetch_current_metrics: the build duration defaults to 0.0.
fetch_current_metrics_ZeroDefault(answers) ==
    [build_duration |-> OrDefault(get_metric_scalar(answers[1]), 0),
     cpu            |-> OrDefault(get_metric_scalar(answers[2]), 50),
     memory         |-> OrDefault(get_metric_scalar(answers[3]), 0)]

\* fetch_current_metrics (lines 55-64), given the answers to its three queries
fetch_current_metrics(answers) ==
    [build_duration |-> OrDefault(get_metric_scalar(answers[1]), 300),
     cpu            |-> OrDefault(get_metric_scalar(answers[2]), 50),
     memory         |-> OrDefault(get_metric_scalar(answers[3]), 0)]

\* Mutant of normalize: the distance is measured from hi instead of lo.
normalize_FromHi(val, lo, hi) ==
    IF hi = lo THEN 0 ELSE ((hi - val) * 10000) \div (hi - lo)

\* normalize (lines 67-68)
normalize(val, lo, hi) ==
    IF hi = lo THEN 0
    ELSE IF hi > lo THEN ((val - lo) * 10000) \div (hi - lo)
    ELSE ((lo - val) * 10000) \div (lo - hi)

\* objective_from_metrics (lines 70-73)
objective_from_metrics(metrics, ranges) ==
    LET dur_n == normalize(metrics.build_duration,
                           ranges.build_duration[1], ranges.build_duration[2])
        cpu_n == normalize(metrics.cpu, ranges.cpu[1], ranges.cpu[2])
    IN  (ALPHA * dur_n + BETA * cpu_n) \div 10

\* Answers of Prometheus to the three queries of one evaluation: all three
\* fail; a fast build on a lightly loaded pod; a slow build with the cpu
\* query matching nothing.
TelemetryDraws ==
    { <<QueryFailed, QueryFailed, QueryFailed>>,
      <<QueryResult(<<100, 140>>), QueryResult(<<30>>), QueryResult(<<0>>)>>,
      <<QueryResult(<<600>>), QueryResult(<<>>), QueryFailed>> }

\* Outcomes of the three draws of lines 110-112 for one individual.
InitDraws ==
    { [replicas |-> 2, cpu |-> 45, concurrency |-> 4] }

\* Outcomes of the three draws of lines 136-140 for one offspring:
\* random.choice([-1, 0, 1]), random.uniform(-0.2, 0.2) in hundredths,
\* random.choice([-1, 0, 1]).
PerturbDraws == { <<-1, 20, 1>>, <<1, -20, -1>>, <<0, 0, 0>> }

\* lines 134-140: the perturbed copy of a parent
Perturb(ind, draw) ==
    [replicas    |-> Max2(SPACE.replicas[1],
                          Min2(SPACE.replicas[2], ind.replicas + draw[1])),
     cpu         |-> Max2(SPACE.cpu_request[1],
                          Min2(SPACE.cpu_request[2],
                               (ind.cpu * (100 + draw[2])) \div 100)),
     concurrency |-> Max2(SPACE.concurrency[1],
                          Min2(SPACE.concurrency[2], ind.concurrency + draw[3]))]

\* lines 119-123 and 145-149: score one individual from the telemetry answers
Evaluate(ind, answers) ==
    LET m == fetch_current_metrics(answers)
    IN  [ind |-> ind, score |-> objective_from_metrics(m, hist_ranges), m |-> m]

\* min(evaluated, key=lambda x: x[1]) (line 126): the first entry with the
\* lowest score
MinByScore(s) ==
    s[CHOOSE k \in 1..Len(s) :
         /\ \A l \in 1..Len(s) : s[k].score <= s[l].score
         /\ \A l \in 1..(k - 1) : s[l].score > s[k].score]

\* list.sort(key=lambda x: x[1]) (line 153): stable, ascending by score
RECURSIVE InsertByScore(_, _)
InsertByScore(sorted, e) ==
    IF sorted = <<>> THEN <<e>>
    ELSE IF Head(sorted).score <= e.score
         THEN <<Head(sorted)>> \o InsertByScore(Tail(sorted), e)
         ELSE <<e>> \o sorted

\* Mutant of the sort: the list is left in the order of the merge.
SortByScore_Unsorted(s) == s

RECURSIVE SortByScore(_)
SortByScore(s) ==
    IF s = <<>> THEN <<>>
    ELSE InsertByScore(SortByScore(SubSeq(s, 1, Len(s) - 1)), s[Len(s)])

\* Mutants of the truncation: one entry too many; the tail instead of the head.
Truncate_OneMore(s) == SubSeq(s, 1, Min2(POP_SIZE + 1, Len(s)))
Truncate_Tail(s) == SubSeq(s, Max2(1, Len(s) - POP_SIZE + 1), Len(s))

\* combined[:POP_SIZE] (line 154)
Truncate(s) == SubSeq(s, 1, Min2(POP_SIZE, Len(s)))

\* Mutant of the test of line 155: the comparison reversed.
Improves_Reversed(score, best_score) == score > best_score

\* line 155: the test that replaces the global best
Improves(score, best_score) == score < best_score

AllFailed(answers) == \A q \in 1..3 : answers[q].failed

NoteScore(score) ==
    IF min_ever = <<>> THEN <<score>> ELSE << Min2(min_ever[1], score) >>

\* lines 105-115: the client and the initial population
MBOStart ==
    /\ prog = "mbo"
    /\ mbo_pc = "start"
    /\ pop' \in [1..POP_SIZE -> InitDraws]
    /\ mbo_pc' = "init_eval"
    /\ UNCHANGED <<prog, fn_vars, de_vars, evaluated, best, it, new_pop, new_evaluated,
                   combined, mbo_evals, min_ever, all_failed, mbo_result, k8s>>

\* Mutant of the loop body order: the next patch does not wait for the
\* evaluation under way.
MayPatch_Overlap(under_way) == TRUE

\* lines 118-124 and 144-150: the body of an evaluation loop runs for one
\* candidate at a time; the patch of line 119 or 145 is reached only when
\* no candidate's evaluation is under way
MayPatch(under_way) == ~under_way

\* lines 118-119: patch the deployment with the next initial individual
MBOInitPatch ==
    /\ prog = "mbo"
    /\ mbo_pc = "init_eval"
    /\ Len(evaluated) < Len(pop)
    /\ MayPatch(applied)
    /\ deployed' = << pop[Len(evaluated) + 1] >>
    /\ patches' = patches + 1
    /\ applied' = TRUE
    /\ UNCHANGED <<prog, fn_vars, de_vars, mbo_pc, pop, evaluated, best, it, new_pop,
                   new_evaluated, combined, mbo_evals, min_ever, all_failed,
                   mbo_result>>

\* lines 120-124: wait, fetch the metrics, score, append
MBOInitMeasure ==
    /\ prog = "mbo"
    /\ mbo_pc = "init_eval"
    /\ Len(evaluated) < Len(pop)
    /\ applied
    /\ \E answers \in TelemetryDraws :
          LET e == Evaluate(pop[Len(evaluated) + 1], answers)
          IN  /\ evaluated' = Append(evaluated, e)
              /\ min_ever' = NoteScore(e.score)
              /\ all_failed' = (all_failed /\ AllFailed(answers))
    /\ mbo_evals' = mbo_evals + 1
    /\ applied' = FALSE
    /\ UNCHANGED <<prog, fn_vars, de_vars, mbo_pc, pop, best, it, new_pop, new_evaluated,
                   combined, mbo_result, deployed, patches>>

\* lines 118-124: one pass of the loop that scores the initial population
MBOInitEval == MBOInitPatch \/ MBOInitMeasure

\* lines 126-127: the initial best
MBOInitialBest ==
    /\ prog = "mbo"
    /\ mbo_pc = "init_eval"
    /\ Len(evaluated) = Len(pop)
    /\ best' = << MinByScore(evaluated) >>
    /\ it' = 0
    /\ mbo_pc' = "iterate"
    /\ UNCHANGED <<prog, fn_vars, de_vars, pop, evaluated, new_pop, new_evaluated, combined,
                   mbo_evals, min_ever, all_failed, mbo_result, k8s>>

\* Mutant of line 134: cand = ind without the copy, so that lines 135-140
\* write the perturbed values into the parent itself; its cached score stays.
ParentsAfter_Aliased(parents, offspring) ==
    [k \in 1..Len(parents) |-> [parents[k] EXCEPT !.ind = offspring[k]]]

\* line 134: cand = ind.copy(); lines 135-140 write to the copy only, so the
\* entries of evaluated are what they were
ParentsAfter(parents, offspring) == parents

\* lines 130-143: one offspring per entry of evaluated
MBOPerturb ==
    /\ prog = "mbo"
    /\ mbo_pc = "iterate"
    /\ it < MAX_ITERS
    /\ \E draws \in [1..Len(evaluated) -> PerturbDraws] :
          new_pop' = [k \in 1..Len(evaluated) |-> Perturb(evaluated[k].ind, draws[k])]
    /\ evaluated' = ParentsAfter(evaluated, new_pop')
    /\ new_evaluated' = <<>>
    /\ combined' = <<>>
    /\ mbo_pc' = "eval"
    /\ UNCHANGED <<prog, fn_vars, de_vars, pop, best, it, mbo_evals, min_ever,
                   all_failed, mbo_result, k8s>>

\* lines 144-145: patch the deployment with the next offspring
MBOEvalPatch ==
    /\ prog = "mbo"
    /\ mbo_pc = "eval"
    /\ Len(new_evaluated) < Len(new_pop)
    /\ MayPatch(applied)
    /\ deployed' = << new_pop[Len(new_evaluated) + 1] >>
    /\ patches' = patches + 1
    /\ applied' = TRUE
    /\ UNCHANGED <<prog, fn_vars, de_vars, mbo_pc, pop, evaluated, best, it, new_pop,
                   new_evaluated, combined, mbo_evals, min_ever, all_failed,
                   mbo_result>>

\* lines 146-150: wait, fetch the metrics, score, append
MBOEvalMeasure ==
    /\ prog = "mbo"
    /\ mbo_pc = "eval"
    /\ Len(new_evaluated) < Len(new_pop)
    /\ applied
    /\ \E answers \in TelemetryDraws :
          LET e == Evaluate(new_pop[Len(new_evaluated) + 1], answers)
          IN  /\ new_evaluated' = Append(new_evaluated, e)
              /\ min_ever' = NoteScore(e.score)
              /\ all_failed' = (all_failed /\ AllFailed(answers))
    /\ mbo_evals' = mbo_evals + 1
    /\ applied' = FALSE
    /\ UNCHANGED <<prog, fn_vars, de_vars, mbo_pc, pop, evaluated, best, it, new_pop,
                   combined, mbo_result, deployed, patches>>

\* lines 144-150: one pass of the loop that scores the offspring
MBOEval == MBOEvalPatch \/ MBOEvalMeasure

\* lines 152-157: merge, sort, truncate, update the global best
MBOSelect ==
    /\ prog = "mbo"
    /\ mbo_pc = "eval"
    /\ Len(new_evaluated) = Len(new_pop)
    /\ combined' = SortByScore(evaluated \o new_evaluated)
    /\ evaluated' = Truncate(combined')
    /\ best' = IF Improves(evaluated'[1].score, best[1].score)
               THEN << evaluated'[1] >> ELSE best
    /\ it' = it + 1
    /\ new_pop' = <<>>
    /\ new_evaluated' = <<>>
    /\ mbo_pc' = "iterate"
    /\ UNCHANGED <<prog, fn_vars, de_vars, pop, mbo_evals, min_ever, all_failed, mbo_result, k8s>>

\* lines 159-173: the loop is over; return best
MBOReturn ==
    /\ prog = "mbo"
    /\ mbo_pc = "iterate"
    /\ it = MAX_ITERS
    /\ mbo_result' = best
    /\ mbo_pc' = "done"
    /\ UNCHANGED <<prog, fn_vars, de_vars, pop, evaluated, best, it, new_pop, new_evaluated,
                   combined, mbo_evals, min_ever, all_failed, k8s>>

\* lines 119 and 145: patch_deployment_params (lines 85-100) raises when the
\* Kubernetes API refuses or cannot be reached; nothing catches it
MBOPatchFails ==
    /\ prog = "mbo"
    /\ \/ mbo_pc = "init_eval" /\ Len(evaluated) < Len(pop)
       \/ mbo_pc = "eval" /\ Len(new_evaluated) < Len(new_pop)
    /\ ~applied
    /\ mbo_pc' = "failed"
    /\ UNCHANGED <<prog, fn_vars, de_vars, pop, evaluated, best, it, new_pop, new_evaluated,
                   combined, mbo_evals, min_ever, all_failed, mbo_result, k8s>>

MBONext == \/ MBOStart \/ MBOInitEval \/ MBOInitialBest \/ MBOPerturb
           \/ MBOEval \/ MBOSelect \/ MBOReturn \/ MBOPatchFails

MBOInit ==
    /\ mbo_pc = "start"
    /\ pop = <<>>
    /\ evaluated = <<>>
    /\ best = <<>>
    /\ it = 0
    /\ new_pop = <<>>
    /\ new_evaluated = <<>>
    /\ combined = <<>>
    /\ mbo_evals = 0
    /\ min_ever = <<>>
    /\ all_failed = TRUE
    /\ mbo_result = <<>>
    /\ deployed = <<>>
    /\ patches = 0
    /\ applied = FALSE

\* ------------------------------------------------- normalize on its own
\* A caller that normalizes several values against one range, as
\* objective_from_metrics does with each range of hist_ranges (lines 71-72).
NormalizeCall ==
    /\ prog = "normalize"
    /\ Len(nz.calls) < MaxCalls
    /\ \E val \in 0..NormMax :
          nz' = [nz EXCEPT !.calls =
                    Append(@, [val |-> val, out |-> normalize(val, nz.lo, nz.hi)])]
    /\ UNCHANGED <<prog, de_vars, mbo_vars, pq>>

NormalizeNext == NormalizeCall

\* ------------------------------------------ prometheus_query on its own
\* What one attempt (lines 32-36) can meet.  Lines 32-34 raise: the request
\* times out or cannot connect; raise_for_status meets a 4xx/5xx answer; the
\* body is not JSON.  The body is JSON whose status is not "success".  The
\* status is "success" and data.result is a list of samples.
Raising == {"timeout", "http_error", "bad_json"}
NotSuccess == {"status_error"}
Payloads == { <<>>, <<30>> }

\* Mutant of line 30: one attempt too many.
MayAttempt_OneMore(attempt) == attempt <= MaxAttempts

\* line 30: for attempt in range(3)
MayAttempt(attempt) == attempt < MaxAttempts

\* lines 31-36: an attempt that returns the result
PQSucceed ==
    /\ prog = "query"
    /\ pq.pc = "try"
    /\ MayAttempt(pq.attempt)
    /\ \E payload \in Payloads :
          pq' = [pq EXCEPT !.pc = "returned",
                           !.log = Append(@, "success"),
                           !.ret = QueryResult(payload)]
    /\ UNCHANGED <<prog, de_vars, mbo_vars, nz>>

\* lines 31-34 and 37-39: an attempt that raises; the handler prints,
\* sleeps and the loop goes on
PQRaise ==
    /\ prog = "query"
    /\ pq.pc = "try"
    /\ MayAttempt(pq.attempt)
    /\ \E e \in Raising :
          pq' = [pq EXCEPT !.attempt = @ + 1,
                           !.log = Append(@, e),
                           !.sleeps = @ + 1]
    /\ UNCHANGED <<prog, de_vars, mbo_vars, nz>>

\* lines 31-35: an attempt answered with another status; the loop goes on
\* without sleeping
PQNotSuccess ==
    /\ prog = "query"
    /\ pq.pc = "try"
    /\ MayAttempt(pq.attempt)
    /\ \E e \in NotSuccess :
          pq' = [pq EXCEPT !.attempt = @ + 1,
                           !.log = Append(@, e)]
    /\ UNCHANGED <<prog, de_vars, mbo_vars, nz>>

\* lines 40-41: the loop is exhausted; return None
PQGiveUp ==
    /\ prog = "query"
    /\ pq.pc = "try"
    /\ ~MayAttempt(pq.attempt)
    /\ pq' = [pq EXCEPT !.pc = "returned", !.ret = QueryFailed]
    /\ UNCHANGED <<prog, de_vars, mbo_vars, nz>>

PQNext == PQSucceed \/ PQRaise \/ PQNotSuccess \/ PQGiveUp

NzIdle == [lo |-> 0, hi |-> 0, calls |-> <<>>]
PqIdle == [pc |-> "idle", attempt |-> 0, log |-> <<>>, sleeps |-> 0, ret |-> <<>>]

\* While differential_evolution or mbo_optimize is followed, the functions
\* exercised on their own stay idle.
FnInit ==
    /\ nz = NzIdle
    /\ pq = PqIdle

\* The parameters pop_size and max_iter are inputs of a run of
\* differential_evolution; while mbo_optimize runs they play no part.
DEInit ==
    /\ de_pc = "start"
    /\ pop_size \in IF prog = "de" THEN 0..MaxPop ELSE {0}
    /\ max_iter \in IF prog = "de" THEN {0, MaxIter} ELSE {0}
    /\ population = <<>>
    /\ fitness = <<>>
    /\ iteration = 0
    /\ i = 1
    /\ de_evals = 0
    /\ de_last = "none"
    /\ de_result = <<>>
    /\ de_abc = <<>>
    /\ de_x = <<>>
    /\ de_mutant = <<>>
    /\ de_R = 0
    /\ de_raw = <<>>
    /\ de_trial = <<>>
    /\ gen_start = <<>>

Init ==
    /\ prog \in {"de", "mbo"}
    /\ DEInit
    /\ MBOInit
    /\ FnInit

Next == DENext \/ MBONext

Spec == Init /\ [][Next]_vars

\* Each program alone.
InitDE ==
    /\ prog = "de"
    /\ DEInit
    /\ MBOInit
    /\ FnInit

InitMBO ==
    /\ prog = "mbo"
    /\ DEInit
    /\ MBOInit
    /\ FnInit

SpecDE == InitDE /\ [][DENext]_vars
SpecMBO == InitMBO /\ [][MBONext]_vars

\* normalize alone: a range lo <= hi, as the pairs of hist_ranges are.
InitNormalize ==
    /\ prog = "normalize"
    /\ DEInit
    /\ MBOInit
    /\ pq = PqIdle
    /\ \E lo \in 0..NormMax : \E hi \in lo..NormMax :
          nz = [lo |-> lo, hi |-> hi, calls |-> <<>>]

SpecNormalize == InitNormalize /\ [][NormalizeNext]_vars

\* prometheus_query alone: the call has just been entered.
InitQuery ==
    /\ prog = "query"
    /\ DEInit
    /\ MBOInit
    /\ nz = NzIdle
    /\ pq = [PqIdle EXCEPT !.pc = "try"]

SpecQuery == InitQuery /\ [][PQNext]_vars

\* ======================================================================
\* Properties
\* ======================================================================
Range(s) == {s[k] : k \in 1..Len(s)}

DEPopulated == prog = "de" /\ de_pc \in {"loop", "vary", "select", "done", "failed"}

\* The lowest score a draw of the initial population can have.
BestInitialDraw ==
    CHOOSE m \in {evaluate_cicd(u) : u \in UniformDraws} :
        \A u \in UniformDraws : m <= evaluate_cicd(u)

\* C1: the global-best score never regresses.  In DE mode min(fitness) after
\* a step of the run is <= min(fitness) before it; in local-perturbation
\* mode best[1] after a step is <= best[1] before it.
C1_BestNeverRegresses ==
    [][ /\ (DEPopulated /\ fitness # <<>> /\ fitness' # <<>>)
            => SeqMin(fitness') <= SeqMin(fitness)
        /\ (best # <<>> /\ best' # <<>>)
            => best'[1].score <= best[1].score ]_vars

\* C1 witness: in a generation after the first, a trial has just been
\* accepted and min(fitness) is below the best any initial population has.
C1_Witness ==
    /\ prog = "de"
    /\ iteration >= 1
    /\ de_last = "accepted"
    /\ SeqMin(fitness) < BestInitialDraw

\* C2: the population size is constant.  In DE mode population and fitness
\* have pop_size members once drawn; in local-perturbation mode evaluated has
\* POP_SIZE members from the initial best on, the offspring list has POP_SIZE
\* members, and the merged list has 2 * POP_SIZE.
C2_PopulationSizeConstant ==
    /\ DEPopulated => Len(population) = pop_size /\ Len(fitness) = pop_size
    /\ best # <<>> => Len(evaluated) = POP_SIZE
    /\ new_pop # <<>> => Len(new_pop) = POP_SIZE
    /\ combined # <<>> => Len(combined) = 2 * POP_SIZE

\* C2 witness: a generation has just been merged and truncated.
C2_Witness ==
    /\ prog = "mbo"
    /\ mbo_pc = "iterate"
    /\ it >= 1
    /\ Len(combined) = 2 * POP_SIZE
    /\ Len(evaluated) = POP_SIZE

\* C3: the best score mbo_optimize returns is the lowest score any candidate
\* evaluated during the run was given.
C3_ReturnsMinimumEver ==
    mbo_pc = "done" => mbo_result[1].score = min_ever[1]

\* C3 witness: the run returned an offspring that scored below the fallback.
C3_Witness ==
    /\ mbo_pc = "done"
    /\ mbo_result[1].ind \notin InitDraws
    /\ \E e \in Range(combined) : mbo_result[1].score < e.score

\* C4: the live population contains the global best.  In local-perturbation
\* mode the entry held in best is a member of evaluated, from the initial
\* best on; in DE mode the returned pair is a member of the final population
\* with its fitness, and that fitness is the minimum.
C4_PopulationContainsBest ==
    /\ best # <<>> => best[1] \in Range(evaluated)
    /\ (prog = "de" /\ de_pc = "done") =>
          /\ \E k \in 1..Len(population) :
                population[k] = de_result[1] /\ fitness[k] = de_result[2]
          /\ de_result[2] = SeqMin(fitness)

\* C4 witness: a generation has discarded a candidate that is not among the
\* survivors, and best is among the survivors.
C4_Witness ==
    /\ prog = "mbo"
    /\ mbo_pc = "iterate"
    /\ it >= 1
    /\ best[1] \in Range(evaluated)
    /\ \E e \in Range(combined) : e \notin Range(evaluated)

\* C5: in DE mode population[i] and fitness[i] change only when the trial's
\* score is strictly less than fitness[i]: a step of the loop that changes
\* an entry strictly lowers its fitness.
C5_StrictAcceptance ==
    [][ (DEPopulated /\ DEPopulated') =>
          \A k \in 1..Len(population) :
              (population'[k] # population[k] \/ fitness'[k] # fitness[k])
                  => fitness'[k] < fitness[k] ]_vars

\* C5 witness: a trial tied with the incumbent and the incumbent was kept.
C5_Witness == prog = "de" /\ de_last = "tie"

\* C6: after merge, sort and truncate, the worst kept score is <= the score of
\* every discarded candidate.
C6_ElitistTruncation ==
    combined # <<>> =>
        \A k \in 1..Len(evaluated) :
            \A d \in (Len(evaluated) + 1)..Len(combined) :
                evaluated[k].score <= combined[d].score

\* C6 witness: a generation discarded a candidate strictly worse than the
\* worst one kept.
C6_Witness ==
    /\ combined # <<>>
    /\ Len(evaluated) = POP_SIZE
    /\ evaluated[POP_SIZE].score < combined[2 * POP_SIZE].score

\* C7: a DE run that fails has evaluated no candidate (an invalid
\* configuration is rejected before the run starts).
C7_FailsBeforeAnyEvaluation ==
    (prog = "de" /\ de_pc = "failed") => de_evals = 0

\* The score of the default metrics build_duration = 300.0 and cpu = 0.5.
FallbackScore ==
    objective_from_metrics([build_duration |-> 300, cpu |-> 50, memory |-> 0],
                           [build_duration |-> <<50, 900>>, cpu |-> <<1, 200>>])

C9_NoEvaluationAborts == prog = "mbo" => mbo_pc # "failed"

\* C10: every scored candidate holds integers in its integer-kind
\* dimensions: replicas and parallel jobs of the DE population, replicas and
\* concurrency of the local-perturbation candidates.
C10_IntegerDimsInteger ==
    /\ DEPopulated =>
          \A k \in 1..Len(population) :
              population[k][3] % 10 = 0 /\ population[k][4] % 10 = 0
    /\ \A e \in Range(evaluated) \cup Range(new_evaluated) :
          e.ind.replicas \in Int /\ e.ind.concurrency \in Int

\* A DE vector lies within bounds in every dimension.
WithinBounds(x) ==
    \A j \in 1..dim : bounds[j][1] <= x[j] /\ x[j] <= bounds[j][2]

\* An individual of mbo_optimize lies within SPACE in every dimension.
WithinSpace(ind) ==
    /\ SPACE.replicas[1] <= ind.replicas /\ ind.replicas <= SPACE.replicas[2]
    /\ SPACE.cpu_request[1] <= ind.cpu /\ ind.cpu <= SPACE.cpu_request[2]
    /\ SPACE.concurrency[1] <= ind.concurrency
    /\ ind.concurrency <= SPACE.concurrency[2]

\* line 43 before the clipping of lines 46-47
Unclipped(x1, x2, x3, j) == x1[j] + ((F_num * (x2[j] - x3[j])) \div F_den)

\* C11: every candidate that is scored lies within the bounds of each of its
\* dimensions: the members of the DE population, the trial handed to
\* evaluate_cicd, the individuals and offspring of mbo_optimize, and the
\* parameters patched onto the deployment to be measured.
C11_ScoredWithinBounds ==
    /\ DEPopulated => \A k \in 1..Len(population) : WithinBounds(population[k])
    /\ (prog = "de" /\ de_pc = "select") => WithinBounds(de_trial)
    /\ \A k \in 1..Len(pop) : WithinSpace(pop[k])
    /\ \A k \in 1..Len(new_pop) : WithinSpace(new_pop[k])
    /\ \A k \in 1..Len(evaluated) : WithinSpace(evaluated[k].ind)
    /\ \A k \in 1..Len(new_evaluated) : WithinSpace(new_evaluated[k].ind)
    /\ \A k \in 1..Len(deployed) : WithinSpace(deployed[k])

\* C11 witness: a trial is about to be scored that took from the mutant a
\* dimension whose unclipped value fell below the lower bound.
C11_Witness ==
    /\ prog = "de"
    /\ de_pc = "select"
    /\ \E j \in 1..dim :
          /\ Unclipped(de_x[1], de_x[2], de_x[3], j) < bounds[j][1]
          /\ de_raw[j] = de_mutant[j]
          /\ de_raw[j] # population[i][j]

\* The smallest pop_size with which random.sample(candidates, 3) succeeds.
ValidPopSize(n) == Cardinality(SampleCandidates(n, 1)) >= 3

\* C12: a run with a valid configuration always ends by returning, after
\* exactly max_iter (MAX_ITERS) generations and exactly
\* pop_size * (1 + max_iter) (POP_SIZE * (1 + MAX_ITERS)) evaluations.
C12_RunsCompleteExactly ==
    /\ (prog = "de" /\ ValidPopSize(pop_size) /\ de_pc \in {"done", "failed"}) =>
          /\ de_pc = "done"
          /\ iteration = max_iter
          /\ de_evals = pop_size * (1 + max_iter)
    /\ (prog = "mbo" /\ mbo_pc \in {"done", "failed"}) =>
          /\ mbo_pc = "done"
          /\ it = MAX_ITERS
          /\ mbo_evals = POP_SIZE * (1 + MAX_ITERS)

\* C13: normalize(v, lo, hi) is 0 when lo = hi; otherwise it is 0 at v = lo
\* and 1 (10000 ten-thousandths) at v = hi, and of two calls against the same
\* range the one with the larger v never returns less.
C13_NormalizeContract ==
    prog = "normalize" =>
        /\ \A k \in 1..Len(nz.calls) :
              /\ nz.lo = nz.hi => nz.calls[k].out = 0
              /\ (nz.lo # nz.hi /\ nz.calls[k].val = nz.lo) => nz.calls[k].out = 0
              /\ (nz.lo # nz.hi /\ nz.calls[k].val = nz.hi) => nz.calls[k].out = 10000
        /\ \A k, l \in 1..Len(nz.calls) :
              nz.calls[k].val <= nz.calls[l].val
                  => nz.calls[k].out <= nz.calls[l].out

\* C13 witness: normalize was called against a proper range at v = lo and
\* then at v = hi, and returned 0 and 1.
C13_Witness ==
    /\ prog = "normalize"
    /\ nz.lo < nz.hi
    /\ Len(nz.calls) = 2
    /\ nz.calls[1].val = nz.lo /\ nz.calls[1].out = 0
    /\ nz.calls[2].val = nz.hi /\ nz.calls[2].out = 10000

\* The candidate whose evaluation is under way.
UnderEvaluation ==
    IF mbo_pc = "init_eval" THEN pop[Len(evaluated) + 1]
    ELSE new_pop[Len(new_evaluated) + 1]

\* C14: evaluations are strictly sequential.  Every patch of the deployment
\* but the one under way has had its score appended, at most one evaluation
\* is under way, and while it is the deployment holds the parameters of the
\* very candidate being evaluated.
C14_EvaluationsSequential ==
    prog = "mbo" =>
        /\ patches = mbo_evals + (IF applied THEN 1 ELSE 0)
        /\ applied =>
              /\ mbo_pc \in {"init_eval", "eval"}
              /\ deployed = << UnderEvaluation >>

\* C14 witness: in a generation, the second offspring is on the deployment
\* after the first offspring, with other parameters, has been scored.
C14_Witness ==
    /\ prog = "mbo"
    /\ mbo_pc = "eval"
    /\ applied
    /\ Len(new_evaluated) >= 1
    /\ deployed[1] # new_evaluated[Len(new_evaluated)].ind

\* C15: each candidate of mbo_optimize is scored exactly once.  Building the
\* offspring and scoring them leaves the parents (values and cached scores)
\* as they were; each score appended belongs to the next offspring not yet
\* scored; selection keeps entries as they were scored and scores nothing;
\* and between generations the number of evaluations is the number of
\* candidates created so far.
C15_ScoredExactlyOnce ==
    [][ prog = "mbo" =>
          /\ (mbo_pc \in {"iterate", "eval"} /\ mbo_pc' = "eval") =>
                /\ evaluated' = evaluated
                /\ mbo_evals' # mbo_evals =>
                      /\ mbo_evals' = mbo_evals + 1
                      /\ Len(new_evaluated') = Len(new_evaluated) + 1
                      /\ SubSeq(new_evaluated', 1, Len(new_evaluated)) = new_evaluated
                      /\ new_evaluated'[Len(new_evaluated')].ind
                            = new_pop[Len(new_evaluated')]
          /\ (mbo_pc = "eval" /\ mbo_pc' = "iterate") =>
                /\ Range(evaluated') \subseteq Range(evaluated \o new_evaluated)
                /\ mbo_evals' = mbo_evals
          /\ mbo_pc' = "iterate" => mbo_evals' = POP_SIZE * (1 + it') ]_vars

\* C15 witness: in a generation after the first, all offspring are scored,
\* one of them differs from its parent, and the parents are still in place.
C15_Witness ==
    /\ prog = "mbo"
    /\ mbo_pc = "eval"
    /\ it >= 1
    /\ Len(new_evaluated) = Len(new_pop)
    /\ Len(evaluated) = Len(new_pop)
    /\ \E k \in 1..Len(new_pop) : new_evaluated[k].ind # evaluated[k].ind

\* C16: selection is applied in place.  The base vectors x1, x2, x3 of every
\* mutant are the members the population holds at that moment, replacements
\* made earlier in the same generation included.
C16_SelectionInPlace ==
    (prog = "de" /\ de_pc \in {"vary", "select"}) =>
        de_x = << population[de_abc[1]], population[de_abc[2]],
                  population[de_abc[3]] >>

\* C16 witness: a mutant is being built for index i from a base vector at an
\* index below i whose member was replaced earlier in this generation.
C16_Witness ==
    /\ prog = "de"
    /\ de_pc = "vary"
    /\ \E k \in 1..3 :
          /\ de_abc[k] < i
          /\ population[de_abc[k]] # gen_start[de_abc[k]]
          /\ de_x[k] = population[de_abc[k]]

\* C17: the indices a, b, c used to build a mutant are indices of the
\* population, pairwise distinct, and each differs from i.
C17_DistinctIndices ==
    (prog = "de" /\ de_pc \in {"vary", "select"}) =>
        /\ \A k \in 1..3 : de_abc[k] \in 1..pop_size /\ de_abc[k] # i
        /\ de_abc[1] # de_abc[2]
        /\ de_abc[1] # de_abc[3]
        /\ de_abc[2] # de_abc[3]

\* C17 witness: indices were sampled for the last member of a population of
\* the smallest workable size, in a generation after the first.
C17_Witness ==
    /\ prog = "de"
    /\ de_pc = "vary"
    /\ iteration >= 1
    /\ i = pop_size
    /\ Cardinality(SampleCandidates(pop_size, i)) = 3
    /\ Len(de_abc) = 3

\* C18: before the integer rounding, every dimension of the trial equals the
\* mutant's or the incumbent's value in that dimension, and the forced
\* dimension R holds the mutant's value.
C18_CrossoverMixes ==
    (prog = "de" /\ de_pc = "select") =>
        /\ \A j \in 1..dim :
              de_raw[j] = de_mutant[j] \/ de_raw[j] = population[i][j]
        /\ de_R \in 1..dim
        /\ de_raw[de_R] = de_mutant[de_R]

\* C18 witness: no CR draw chose the mutant, and the trial still took the
\* forced dimension from the mutant, where it differs from the incumbent,
\* while it kept the incumbent's value in another dimension.
C18_Witness ==
    /\ prog = "de"
    /\ de_pc = "select"
    /\ de_raw[de_R] = de_mutant[de_R]
    /\ de_raw[de_R] # population[i][de_R]
    /\ \E j \in 1..dim :
          /\ j # de_R
          /\ de_raw[j] = population[i][j]
          /\ de_raw[j] # de_mutant[j]

\* C19: prometheus_query makes at most 3 attempts; an attempt that succeeds
\* is the last one and its result is returned; after 3 attempts without
\* success None is returned; and no attempt's failure leaves the function:
\* until it has returned, a further step is always possible.
C19_BoundedRetry ==
    prog = "query" =>
        /\ Len(pq.log) <= 3
        /\ \A k \in 1..Len(pq.log) :
              pq.log[k] = "success" =>
                  /\ k = Len(pq.log)
                  /\ pq.pc = "returned"
                  /\ ~pq.ret.failed
        /\ pq.pc = "returned" =>
              IF pq.ret.failed
              THEN /\ Len(pq.log) = 3
                   /\ \A k \in 1..3 : pq.log[k] # "success"
              ELSE pq.log[Len(pq.log)] = "success"
        /\ pq.pc = "try" => (ENABLED PQNext /\ Len(pq.log) = pq.attempt)
        /\ pq.pc \in {"try", "returned"}

\* C19 witness: two attempts failed, one by an exception and one by its
\* status, and the third one returned a result.
C19_Witness ==
    /\ prog = "query"
    /\ pq.pc = "returned"
    /\ Len(pq.log) = 3
    /\ pq.log[1] \in Raising
    /\ pq.log[2] \in NotSuccess
    /\ ~pq.ret.failed

\* C20: the cached fitness is coherent with the population.  Once the
\* population is drawn, fitness[k] is the objective of population[k] for
\* every k, and the returned pair <<config, score>> has
\* score = evaluate_cicd(config).
C20_FitnessCoherent ==
    /\ DEPopulated =>
          /\ Len(fitness) = Len(population)
          /\ \A k \in 1..Len(population) :
                fitness[k] = evaluate_cicd(population[k])
    /\ (prog = "de" /\ de_result # <<>>) =>
          de_result[2] = evaluate_cicd(de_result[1])

\* C20 witness: a run has returned a member that replaced an initial one.
C20_Witness ==
    /\ prog = "de"
    /\ de_pc = "done"
    /\ de_result # <<>>
    /\ de_result[1] \notin UniformDraws
    /\ de_result[2] < BestInitialDraw

====
